---- MODULE Spec2Model ----
(***************************************************************************)
(* A model of abbrase.c: the IntVec utility, the adjacency-list decoder,   *)
(* the word graph loader, the edit-distance matcher and the passphrase     *)
(* generation loop of main.                                                *)
(*                                                                         *)
(* Bytes are the integers 0..255.  A C string is modelled by the memory    *)
(* it lives in: a sequence of bytes whose element k+1 is the byte at C     *)
(* index k, holding the string, its terminating 0 and the heap bytes that  *)
(* follow it.  An IntVec is the sequence of its first len elements.        *)
(***************************************************************************)
EXTENDS Integers, Sequences, FiniteSets, TLC

VARIABLES
  \* decode (lines 162-205)
  enc, enc_ind, dec, last_num, zero_run, dec_hi, dec_pc,
  \* intvec_intersect (lines 68-83)
  a, b, ai, bi, ret, int_pc,
  \* wordgraph_init (lines 107-145)
  filename, g, init_i, init_pc,
  \* edit_distance (lines 224-268); ed_x, ed_y are the arguments as passed
  ed_x, ed_y, ed_a, ed_b, ed_cost, ed_i, ed_pc,
  \* wordgraph_find_word (lines 271-281)
  word, fw_i, best_word, best_dist, fw_pc,
  \* main: g, the graph wordgraph_init returned (line 284), held as the name
  \* of the corpus it was loaded from
  graph,
  \* main, the generation loop (lines 340-413); drawn is the buffer as
  \* read from the random source, out the line being printed (its prefixes
  \* and the word ids of its positions), n_lines the lines completed and
  \* requested the count as given
  length, count, start_word, prefixes_chosen, word_sets, gen_i, next_words,
  mismatch, last_word, drawn, out, n_lines, requested, gen_pc

decVars == <<enc, enc_ind, dec, last_num, zero_run, dec_hi, dec_pc>>
intVars == <<a, b, ai, bi, ret, int_pc>>
initVars == <<filename, g, init_i, init_pc>>
edVars == <<ed_x, ed_y, ed_a, ed_b, ed_cost, ed_i, ed_pc>>
fwVars == <<word, fw_i, best_word, best_dist, fw_pc>>
genVars ==
  <<length, count, start_word, prefixes_chosen, word_sets, gen_i, next_words,
    mismatch, last_word, drawn, out, n_lines, requested, gen_pc>>
vars == <<decVars, intVars, initVars, edVars, fwVars, genVars, graph>>

----------------------------------------------------------------------------
(* Arithmetic of C ints on the values the model reaches (all below 2^31).  *)

Max(x, y) == IF x >= y THEN x ELSE y

RECURSIVE BitAnd(_, _)
\* x & y for y >= 0; x may be negative (two's complement: x % 2 is its low
\* bit and x \div 2 its arithmetic shift).
BitAnd(x, y) ==
  IF y = 0 THEN 0
  ELSE (x % 2) * (y % 2) + 2 * BitAnd(x \div 2, y \div 2)

RECURSIVE BitOr(_, _)
\* x | y for x, y >= 0.
BitOr(x, y) ==
  IF x = 0 THEN y
  ELSE IF y = 0 THEN x
  ELSE Max(x % 2, y % 2) + 2 * BitOr(x \div 2, y \div 2)

RECURSIVE Shl(_, _)
\* x << n for x >= 0.
Shl(x, n) == IF n = 0 THEN x ELSE Shl(2 * x, n - 1)

Range(lo, hi) == [k \in 1..(hi - lo + 1) |-> lo + k - 1]

\* The ascending sequence of the elements of a finite set of integers.
RECURSIVE SetToSeq(_)
SetToSeq(S) ==
  IF S = {} THEN <<>>
  ELSE LET m == CHOOSE x \in S : \A y \in S : x <= y
       IN <<m>> \o SetToSeq(S \ {m})

SeqSet(s) == {s[k] : k \in 1..Len(s)}

IsAscending(s) == \A k \in 1..(Len(s) - 1) : s[k] < s[k + 1]

----------------------------------------------------------------------------
(* IntVec                                                                  *)

intvec_alloc == <<>>

intvec_append(vec, val) == Append(vec, val)

\* The index check of intvec_get: TRUE when err(10, ...) is called.
intvec_get_faults(vec, pos) == pos < 0 \/ pos >= Len(vec)

intvec_get(vec, pos) == vec[pos + 1]

intvec_copy(vec) == [k \in 1..Len(vec) |-> vec[k]]

\* IntersectIter advancing the wrong cursor when a's element is the smaller.
IntersectIterMut(va, vb, st) ==
  LET diff == va[st.ai + 1] - vb[st.bi + 1]
  IN IF diff = 0
       THEN [ai |-> st.ai + 1, bi |-> st.bi + 1,
             ret |-> Append(st.ret, va[st.ai + 1])]
     ELSE [st EXCEPT !.bi = st.bi + 1]

\* One iteration of the merge loop of intvec_intersect on the cursor state
\* st = [ai, bi, ret].
IntersectIter(va, vb, st) ==
  LET diff == va[st.ai + 1] - vb[st.bi + 1]
  IN IF diff = 0
       THEN [ai |-> st.ai + 1, bi |-> st.bi + 1,
             ret |-> intvec_append(st.ret, va[st.ai + 1])]
     ELSE IF diff < 0
       THEN [st EXCEPT !.ai = st.ai + 1]
     ELSE [st EXCEPT !.bi = st.bi + 1]

IntersectCond(va, vb, st) == st.ai < Len(va) /\ st.bi < Len(vb)

RECURSIVE IntersectLoop(_, _, _)
IntersectLoop(va, vb, st) ==
  IF IntersectCond(va, vb, st)
    THEN IntersectLoop(va, vb, IntersectIter(va, vb, st))
  ELSE st

intvec_intersect(va, vb) ==
  IntersectLoop(va, vb, [ai |-> 0, bi |-> 0, ret |-> intvec_alloc]).ret

----------------------------------------------------------------------------
(* decode                                                                  *)

ByteAt(mem, k) == mem[k + 1]

\* Index of the terminating 0 of the C string that starts mem.
TermIdx(mem) == (CHOOSE k \in 1..Len(mem) :
                   mem[k] = 0 /\ \A j \in 1..(k - 1) : mem[j] # 0) - 1

\* The bytes of the C string that starts mem (strlen bytes).
Body(mem) == SubSeq(mem, 1, TermIdx(mem))

\* line 188
IsRunByte(val) == val >= 96

RunLengthMut(val) == BitAnd(val, 15)

\* line 189
RunLength(val) == BitAnd(val, 31)

\* line 197
VarintContinues(val) == BitAnd(val, 32) # 0

\* The do-while of lines 193-197 from st = [delta, delta_ind, hi]: reads
\* bytes at ind + delta_ind until one without bit 0x20.
RECURSIVE VarintLoop(_, _, _)
VarintLoop(mem, ind, st) ==
  LET val == ByteAt(mem, ind + st.delta_ind)
      nxt == [delta |-> BitOr(st.delta, Shl(BitAnd(val, 31), 5 * st.delta_ind)),
              delta_ind |-> st.delta_ind + 1,
              hi |-> Max(st.hi, ind + st.delta_ind)]
  IN IF VarintContinues(val) THEN VarintLoop(mem, ind, nxt) ELSE nxt

\* The loop test of line 181; it reads enc[enc_ind].
DecodeCond(mem, st) == ByteAt(mem, st.enc_ind) # 0 \/ st.zero_run # 0

\* One iteration of the while loop (lines 182-202) on
\* st = [enc_ind, dec, last_num, zero_run, hi]; hi is the highest index of
\* enc read so far (the loop test that admitted the iteration included).
DecodeIter(mem, st) ==
  LET hi0 == Max(st.hi, st.enc_ind)
      val == ByteAt(mem, st.enc_ind)
      tok == IF st.zero_run # 0
               THEN [delta |-> 0, delta_ind |-> 0, hi |-> hi0,
                     zero_run |-> st.zero_run - 1]
             ELSE IF IsRunByte(val)
               THEN [delta |-> 0, delta_ind |-> 1, hi |-> hi0,
                     zero_run |-> RunLength(val)]
             ELSE LET v == VarintLoop(mem, st.enc_ind,
                                      [delta |-> 0, delta_ind |-> 0, hi |-> hi0])
                  IN [delta |-> v.delta, delta_ind |-> v.delta_ind, hi |-> v.hi,
                      zero_run |-> 0]
  IN [enc_ind |-> st.enc_ind + tok.delta_ind,
      dec |-> intvec_append(st.dec, st.last_num + tok.delta + 1),
      last_num |-> st.last_num + tok.delta + 1,
      zero_run |-> tok.zero_run,
      hi |-> tok.hi]

DecodeStart ==
  [enc_ind |-> 0, dec |-> intvec_alloc, last_num |-> 0, zero_run |-> 0, hi |-> 0]

RECURSIVE DecodeLoop(_, _)
DecodeLoop(mem, st) ==
  IF DecodeCond(mem, st) THEN DecodeLoop(mem, DecodeIter(mem, st))
  ELSE [st EXCEPT !.hi = Max(st.hi, st.enc_ind)]

\* decode(enc): the IntVec returned.
decode(mem) == DecodeLoop(mem, DecodeStart).dec

----------------------------------------------------------------------------
(* The encoder of the corpus format (the comment of lines 163-171; the     *)
(* encoder itself is digest.py).                                           *)

MaxRun == 32

RECURSIVE Varint(_)
Varint(v) == IF v < 32 THEN <<64 + v>> ELSE <<32 + (v % 32)>> \o Varint(v \div 32)

\* Deltas of an ascending sequence against the previous value, minus 1.
Deltas(s) == [k \in 1..Len(s) |-> s[k] - (IF k = 1 THEN 0 ELSE s[k - 1]) - 1]

\* Length of the run of zeros that starts d, capped at MaxRun.
ZeroRun(d) ==
  LET cap == IF Len(d) < MaxRun THEN Len(d) ELSE MaxRun
      zeros == {r \in 0..cap : \A k \in 1..r : d[k] = 0}
  IN CHOOSE r \in zeros : \A q \in zeros : q <= r

RECURSIVE EncodeDeltas(_)
EncodeDeltas(d) ==
  IF Len(d) = 0 THEN <<>>
  ELSE IF d[1] = 0
    THEN <<96 + (ZeroRun(d) - 1)>> \o EncodeDeltas(SubSeq(d, ZeroRun(d) + 1, Len(d)))
  ELSE Varint(d[1]) \o EncodeDeltas(SubSeq(d, 2, Len(d)))

Encode(s) == EncodeDeltas(Deltas(s))

----------------------------------------------------------------------------
(* The word graph and its loader                                           *)

MAX_PREFIXES == 1024
PREFIX_LEN == 3

\* A line as getline_trimmed leaves it in memory (lines 102-104): the
\* newline overwritten by 0, then getline's own terminator.
CStr(line) == line \o <<0, 0>>

NULL == <<>>

ToLowerMut(c) == c

\* tolower of line 123, on ASCII.
ToLower(c) == IF c >= 65 /\ c <= 90 THEN c + 32 ELSE c

\* words[i][j] for j < PREFIX_LEN, where the word was read from `line`; h is
\* the uninitialized heap byte that follows getline's terminator.
WordByte(line, j, h) ==
  IF j < Len(line) THEN line[j + 1]
  ELSE IF j <= Len(line) + 1 THEN 0
  ELSE h

\* lines 121-123
ExtractPrefix(line, h) == [j \in 1..PREFIX_LEN |-> ToLower(WordByte(line, j - 1, h))]

\* memcmp(p, q, PREFIX_LEN) == 0 of line 134
PrefixEqual(p, q) == \A j \in 1..PREFIX_LEN : p[j] = q[j]

\* The scan of lines 125-138: the first j (from 1) whose prefix matches, or
\* 0 when the scan reaches j == n_prefixes without a match.
PrefixIndex(gr, prefix) ==
  LET hits == {j \in 1..gr.n_prefixes : PrefixEqual(gr.prefixes[j].prefix, prefix)}
  IN IF hits = {} THEN 0 ELSE CHOOSE j \in hits : \A k \in hits : j <= k

\* lines 112-117: the graph after the header is read.
EmptyGraph(n) ==
  [n_words |-> n,
   n_prefixes |-> 0,
   words |-> [k \in 0..(n - 1) |-> NULL],
   followers_compressed |-> [k \in 0..(n - 1) |-> NULL],
   prefixes |-> <<>>]

\* One iteration of the word loop (lines 118-139) on st = [pc, g, i]; the
\* word with id i is line i of the file after the header.
InitWordIter(file, st, h) ==
  IF st.i > Len(file.lines)
    THEN [st EXCEPT !.pc = "exit1"]
  ELSE
    LET line == file.lines[st.i]
        prefix == ExtractPrefix(line, h)
        j == PrefixIndex(st.g, prefix)
        g1 == [st.g EXCEPT !.words[st.i] = CStr(line)]
    IN IF j = 0 /\ g1.n_prefixes = MAX_PREFIXES
         THEN [st EXCEPT !.pc = "exit2", !.g = g1]
       ELSE IF j = 0
         THEN [st EXCEPT
                 !.g = [g1 EXCEPT
                          !.n_prefixes = g1.n_prefixes + 1,
                          !.prefixes = Append(g1.prefixes,
                                              [prefix |-> prefix,
                                               words |-> intvec_append(intvec_alloc, st.i)])],
                 !.i = st.i + 1]
       ELSE [st EXCEPT
               !.g = [g1 EXCEPT !.prefixes[j].words = intvec_append(@, st.i)],
               !.i = st.i + 1]

\* The check of lines 140-141.
InitWordsDone(st) ==
  IF st.g.n_prefixes # MAX_PREFIXES
    THEN [st EXCEPT !.pc = "exit3"]
  ELSE [st EXCEPT !.pc = "followers", !.i = 0]

\* The follower loop (lines 142-143): follower line i is line
\* (n_words - 1) + i + 1 of the file after the header.
InitFollowers(file, st) ==
  LET n == st.g.n_words
      have == Len(file.lines) - (n - 1)
  IN IF have < n
       THEN [st EXCEPT
               !.pc = "exit1",
               !.i = IF have < 0 THEN 0 ELSE have,
               !.g.followers_compressed =
                  [k \in 0..(n - 1) |->
                     IF k < have THEN CStr(file.lines[n + k]) ELSE NULL]]
     ELSE [st EXCEPT
             !.pc = "done",
             !.i = n,
             !.g.followers_compressed =
                [k \in 0..(n - 1) |-> CStr(file.lines[n + k])]]

\* wordgraph_init from the word loop on: iterations lo..hi of the word loop
\* in order, stopping at the first that exits.
RECURSIVE WordPass(_, _, _, _, _)
WordPass(file, st, lo, hi, h) ==
  IF lo > hi \/ st.pc # "words" THEN st
  ELSE IF lo = hi THEN InitWordIter(file, st, h)
  ELSE WordPass(file, WordPass(file, st, lo, (lo + hi) \div 2, h),
                (lo + hi) \div 2 + 1, hi, h)

\* lines 109-114: fopen and the header.
InitOpen(file) ==
  IF ~file.exists \/ file.header = <<>>
    THEN [pc |-> "exit1", g |-> EmptyGraph(0), i |-> 0]
  ELSE [pc |-> "words", g |-> EmptyGraph(file.header[1]), i |-> 1]

\* wordgraph_init(filename) on a file: [pc, g, i] with pc = "done" when the
\* graph g is returned and "exit1", "exit2" or "exit3" when the process
\* exits with that status.
wordgraph_init(file, h) ==
  LET s0 == InitOpen(file)
      s1 == IF s0.pc = "words"
              THEN WordPass(file, s0, 1, s0.g.n_words - 1, h)
            ELSE s0
      s2 == IF s1.pc = "words" THEN InitWordsDone(s1) ELSE s1
  IN IF s2.pc = "followers" THEN InitFollowers(file, s2) ELSE s2

----------------------------------------------------------------------------
(* edit_distance and wordgraph_find_word                                   *)

\* strlen bytes of a C string in memory.
Str(mem) == Body(mem)

min(x, y) == IF x <= y THEN x ELSE y

\* lines 227-237: the arguments, the shorter first.
EdSwap(x, y) ==
  IF Len(x) > Len(y) THEN [a |-> y, b |-> x] ELSE [a |-> x, b |-> y]

\* lines 249-250: cost[0..n]
EdInitCost(n) == [j \in 0..n |-> j]

\* Cells j..n of row i (lines 256-264) on st = [cost, prevdiag].
RECURSIVE EdCells(_, _, _, _, _)
EdCells(sa, sb, i, j, st) ==
  IF j >= Len(sa) + 1 THEN st
  ELSE EdCells(sa, sb, i, j + 1,
               [cost |-> [st.cost EXCEPT
                            ![j] = min(st.cost[j] + 1,
                                       min(st.cost[j - 1] + 1,
                                           IF sa[j] # sb[i] THEN st.prevdiag + 1
                                           ELSE st.prevdiag))],
                prevdiag |-> st.cost[j]])

\* One iteration of the row loop (lines 253-264): the cost row after row i.
EdRow(sa, sb, i, cost) ==
  EdCells(sa, sb, i, 1, [cost |-> [cost EXCEPT ![0] = i], prevdiag |-> cost[0]]).cost

RECURSIVE EdRows(_, _, _, _)
EdRows(sa, sb, i, cost) ==
  IF i >= Len(sb) + 1 THEN cost
  ELSE EdRows(sa, sb, i + 1, EdRow(sa, sb, i, cost))

edit_distance(x, y) ==
  EdRows(EdSwap(x, y).a, EdSwap(x, y).b, 1, EdInitCost(Len(EdSwap(x, y).a)))
    [Len(EdSwap(x, y).a)]

IsCloserMut(dist, best) == dist <= best

\* line 275
IsCloser(dist, best) == dist < best

\* One iteration of the loop of wordgraph_find_word (lines 273-279) on
\* st = [i, best_word, best_dist].
FindIter(gr, w, st) ==
  IF IsCloser(edit_distance(w, Str(gr.words[st.i])), st.best_dist)
    THEN [i |-> st.i + 1, best_word |-> st.i,
          best_dist |-> edit_distance(w, Str(gr.words[st.i]))]
  ELSE [st EXCEPT !.i = st.i + 1]

FindStart == [i |-> 1, best_word |-> 0, best_dist |-> 10000]

----------------------------------------------------------------------------
(* main: the generation loop                                               *)

\* g->prefixes[p].words
BucketWords(gr, p) == gr.prefixes[p + 1].words

MaskPrefixMut(x) == BitAnd(x, MAX_PREFIXES \div 2 - 1)

\* line 349
MaskPrefix(x) == BitAnd(x, MAX_PREFIXES - 1)

\* lines 347-352: the candidate sets of the masked draws.
CandidateSets(gr, chosen) ==
  [k \in DOMAIN chosen |-> intvec_copy(BucketWords(gr, chosen[k]))]

KeepsWordMut(intersect) == TRUE

\* line 370
KeepsWord(intersect) == Len(intersect) # 0

\* The loop of lines 366-374 from j on: new_words, or "fault" when
\* intvec_get exits.
RECURSIVE NarrowLoop(_, _, _, _, _)
NarrowLoop(gr, words, next, j, new_words) ==
  IF j >= Len(words) THEN new_words
  ELSE IF intvec_get_faults(words, j) THEN "fault"
  ELSE NarrowLoop(gr, words, next, j + 1,
         IF KeepsWord(intvec_intersect(next,
                        decode(gr.followers_compressed[intvec_get(words, j)])))
           THEN intvec_append(new_words, intvec_get(words, j))
         ELSE new_words)

\* One iteration of the backward loop (lines 363-384) on
\* st = [pc, word_sets, i, next_words, mismatch]; next_words is the index of
\* the word set it points to, -1 for NULL.
BackwardIter(gr, st) ==
  LET new_words == IF st.next_words # -1
                     THEN NarrowLoop(gr, st.word_sets[st.i],
                                     st.word_sets[st.next_words], 0, intvec_alloc)
                   ELSE intvec_alloc
  IN IF new_words = "fault" THEN [st EXCEPT !.pc = "exit10"]
     ELSE IF Len(new_words) # 0
       THEN [st EXCEPT !.word_sets[st.i] = new_words,
                       !.next_words = st.i, !.i = st.i - 1]
     ELSE [st EXCEPT !.mismatch = st.mismatch + 1,
                     !.next_words = st.i, !.i = st.i - 1]

PickFromMut(intersect, set) == set

\* line 397: the vector the word is taken from.
PickFrom(intersect, set) == IF Len(intersect) # 0 THEN intersect ELSE set

\* One iteration of the forward loop (lines 392-401) on
\* st = [pc, i, last_word]; word_sets are the candidate sets.
ForwardIter(gr, sets, st) ==
  LET followers == decode(gr.followers_compressed[st.last_word])
      intersect == intvec_intersect(sets[st.i], followers)
  IN IF intvec_get_faults(PickFrom(intersect, sets[st.i]), 0)
       THEN [st EXCEPT !.pc = "exit10"]
     ELSE [st EXCEPT !.last_word = intvec_get(PickFrom(intersect, sets[st.i]), 0),
                     !.i = st.i + 1]

----------------------------------------------------------------------------
(* Corpus files                                                            *)

\* 1024 three-letter words with pairwise distinct prefixes, "aaa" first.
BaseWord(k) ==
  <<97 + ((k - 1) \div 64), 97 + (((k - 1) \div 8) % 8), 97 + ((k - 1) % 8)>>

\* Words 1025..1027 share the prefixes of words 1 and 2, one in upper case.
GoodWords ==
  [k \in 1..1027 |->
     IF k <= 1024 THEN BaseWord(k)
     ELSE IF k = 1025 THEN <<97, 97, 97, 98>>
     ELSE IF k = 1026 THEN <<65, 65, 66, 97>>
     ELSE <<97, 65, 97, 99, 100>>]

\* The follower lines of the plain corpus files: line k, which is word
\* k - 1's, holds the one follower k.
PlainFollowers(n) == [k \in 1..n |-> IF k < n THEN Encode(<<k>>) ELSE <<>>]

CorpusFile(words, followers) ==
  [exists |-> TRUE, header |-> <<Len(words) + 1>>, lines |-> words \o followers]

GoodFile == CorpusFile(GoodWords, PlainFollowers(1028))

\* 1023 distinct prefixes: word 1024 takes the prefix of word 1.
FewFile ==
  CorpusFile([GoodWords EXCEPT ![1024] = <<97, 97, 97, 100>>], PlainFollowers(1028))

\* 1025 distinct prefixes: word 1026 brings a new one.
ManyFile ==
  CorpusFile([GoodWords EXCEPT ![1026] = <<122, 122, 122>>], PlainFollowers(1028))

\* 1024 distinct prefixes, among them the two-character word "hi".
ShortFile ==
  CorpusFile([GoodWords EXCEPT ![7] = <<104, 105>>], PlainFollowers(1028))

\* As ShortFile, with an empty line for word 7.
BlankFile ==
  CorpusFile([GoodWords EXCEPT ![7] = <<>>], PlainFollowers(1028))

\* The follower section is one line short.
TruncFile == CorpusFile(GoodWords, PlainFollowers(1027))

\* The file ends in the word section.
StubFile == [exists |-> TRUE, header |-> <<6>>, lines |-> SubSeq(GoodWords, 1, 3)]

\* A header that holds no words.
NoWordsFile == [exists |-> TRUE, header |-> <<1>>, lines |-> <<<<>>>>]

BadHeaderFile == [exists |-> TRUE, header |-> <<>>, lines |-> GoodWords]

MissingFile == [exists |-> FALSE, header |-> <<>>, lines |-> <<>>]

FileNames ==
  {"good", "few", "many", "short", "blank", "trunc", "stub", "nowords",
   "badheader", "missing"}

FileContents(name) ==
  CASE name = "good" -> GoodFile
    [] name = "few" -> FewFile
    [] name = "many" -> ManyFile
    [] name = "short" -> ShortFile
    [] name = "blank" -> BlankFile
    [] name = "trunc" -> TruncFile
    [] name = "stub" -> StubFile
    [] name = "nowords" -> NoWordsFile
    [] name = "badheader" -> BadHeaderFile
    [] OTHER -> MissingFile

\* Values of the uninitialized byte read from an empty word line.
HeapBytes == {0, 97}

----------------------------------------------------------------------------
(* Inputs                                                                  *)

MaxId == 6
MaxEncLen == 2
MaxVecLen == 3

\* Strictly ascending sequences of positive integers.
AscInputs ==
  {SetToSeq(S) : S \in SUBSET (1..MaxId)}
    \cup {Range(100, 131), Range(1, 34), Range(7, 72), <<1, 2, 3, 5, 80>>,
          <<80, 1100>>, <<3, 40000, 40001>>, <<31, 32, 33, 65, 1090>>}

\* A continuation byte, a final varint byte, run bytes, a byte above 0x7f.
ByteSample == {33, 65, 96, 98, 200}

RECURSIVE SeqsUpTo(_, _)
SeqsUpTo(S, n) ==
  IF n = 0 THEN {<<>>}
  ELSE LET shorter == SeqsUpTo(S, n - 1)
       IN shorter \cup {Append(s, x) : s \in {t \in shorter : Len(t) = n - 1}, x \in S}

\* What may follow the terminator in the buffer: the second 0 left by
\* getline_trimmed (a line's newline overwritten, then getline's own
\* terminator), or uninitialized heap.
HeapTails == {<<0>>, <<65, 0, 0>>, <<33, 0, 0>>, <<98, 0, 0>>}

EncInputs ==
  {Encode(s) : s \in AscInputs} \cup SeqsUpTo(ByteSample, MaxEncLen)

MaxStrLen == 3

\* Strings over "a", "b".
Strings == SeqsUpTo({97, 98}, MaxStrLen)

Kitten == <<107, 105, 116, 116, 101, 110>>
Sitting == <<115, 105, 116, 116, 105, 110, 103>>

\* Further argument pairs: kitten/sitting, flaw/lawn, a difference of case.
StringPairs ==
  (Strings \X Strings)
    \cup {<<Kitten, Sitting>>, <<Sitting, Kitten>>,
          <<<<102, 108, 97, 119>>, <<108, 97, 119, 110>>>>,
          <<<<65, 98>>, <<97, 98>>>>, <<<<97, 98, 99, 100>>, <<>>>>}

\* The graph wordgraph_init returns for the good corpus.
GoodGraph == wordgraph_init(GoodFile, 0).g

\* Hook arguments: short strings, dictionary words (the last of the
\* dictionary among them), words of neither case nor length of the
\* dictionary's.
Queries ==
  Strings \cup {GoodWords[2], GoodWords[1025], GoodWords[1026], GoodWords[1027],
                GoodWords[1024], <<122, 122, 122>>, <<112, 104, 104, 120>>, Kitten}

MaxLength == 3
MaxCount == 2

\* 32-bit values read from the random source: they mask to the buckets 0
\* ("aaa": words 1, 1025, 1027), 1 ("aab": words 2, 1026) and 1023 (word
\* 1024).
Draws == {1024, -2147483647, -1}

\* Follower sets of four corpora over the words of the good corpus.
NoLinks(w) == <<>>

DenseLinks(w) ==
  CASE w = 0 -> <<1, 2, 3>>
    [] w = 1 -> Range(1024, 1027)
    [] w = 2 -> <<1027>>
    [] w = 1024 -> <<1026, 1027>>
    [] w = 1025 -> <<2>>
    [] w = 1026 -> <<1025, 1026>>
    [] w = 1027 -> <<1, 2, 1024, 1026>>
    [] OTHER -> <<>>

SparseLinks(w) ==
  CASE w = 0 -> <<1027>>
    [] w = 1 -> <<1024>>
    [] w = 1024 -> <<1025>>
    [] w = 1026 -> <<1, 1024>>
    [] w = 1027 -> <<1026>>
    [] OTHER -> <<>>

LinkedGraph(Links(_)) ==
  [GoodGraph EXCEPT
     !.followers_compressed = [w \in 0..1027 |-> CStr(Encode(Links(w)))]]

NoLinksGraph == LinkedGraph(NoLinks)
DenseGraph == LinkedGraph(DenseLinks)
SparseGraph == LinkedGraph(SparseLinks)

\* The graphs wordgraph_init returns for the four corpora: the words of the
\* good corpus with its own and with the three other follower sections.
GraphNames == {"good", "nolinks", "dense", "sparse"}

LoadedGraph(name) ==
  CASE name = "good" -> GoodGraph
    [] name = "nolinks" -> NoLinksGraph
    [] name = "dense" -> DenseGraph
    [] OTHER -> SparseGraph

\* start_word: no hook, or the result of wordgraph_find_word.
Hooks == {0, 1024, 1027}

----------------------------------------------------------------------------
(* decode, one loop iteration per step                                     *)

DecIdle ==
  /\ enc = <<0>> /\ enc_ind = 0 /\ dec = <<>> /\ last_num = 0
  /\ zero_run = 0 /\ dec_hi = 0 /\ dec_pc = "idle"

DecState ==
  [enc_ind |-> enc_ind, dec |-> dec, last_num |-> last_num,
   zero_run |-> zero_run, hi |-> dec_hi]

DecodeInit ==
  /\ \E body \in EncInputs, heap \in HeapTails : enc = body \o <<0>> \o heap
  /\ enc_ind = DecodeStart.enc_ind
  /\ dec = DecodeStart.dec
  /\ last_num = DecodeStart.last_num
  /\ zero_run = DecodeStart.zero_run
  /\ dec_hi = DecodeStart.hi
  /\ dec_pc = "loop"

DecodeStep ==
  /\ dec_pc = "loop"
  /\ DecodeCond(enc, DecState)
  /\ LET st == DecodeIter(enc, DecState)
     IN /\ enc_ind' = st.enc_ind
        /\ dec' = st.dec
        /\ last_num' = st.last_num
        /\ zero_run' = st.zero_run
        /\ dec_hi' = st.hi
  /\ UNCHANGED <<enc, dec_pc>>

DecodeReturn ==
  /\ dec_pc = "loop"
  /\ ~DecodeCond(enc, DecState)
  /\ dec_hi' = Max(dec_hi, enc_ind)
  /\ dec_pc' = "done"
  /\ UNCHANGED <<enc, enc_ind, dec, last_num, zero_run>>

----------------------------------------------------------------------------
(* intvec_intersect, one loop iteration per step                           *)

IntIdle ==
  /\ a = <<>> /\ b = <<>> /\ ai = 0 /\ bi = 0 /\ ret = <<>> /\ int_pc = "idle"

VecInputs == {SetToSeq(S) : S \in {T \in SUBSET (1..MaxId) : Cardinality(T) <= MaxVecLen}}

IntersectInit ==
  /\ a \in VecInputs
  /\ b \in VecInputs
  /\ ai = 0 /\ bi = 0 /\ ret = intvec_alloc
  /\ int_pc = "loop"

IntersectStep ==
  /\ int_pc = "loop"
  /\ IntersectCond(a, b, [ai |-> ai, bi |-> bi, ret |-> ret])
  /\ LET st == IntersectIter(a, b, [ai |-> ai, bi |-> bi, ret |-> ret])
     IN ai' = st.ai /\ bi' = st.bi /\ ret' = st.ret
  /\ UNCHANGED <<a, b, int_pc>>

IntersectReturn ==
  /\ int_pc = "loop"
  /\ ~IntersectCond(a, b, [ai |-> ai, bi |-> bi, ret |-> ret])
  /\ int_pc' = "done"
  /\ UNCHANGED <<a, b, ai, bi, ret>>

----------------------------------------------------------------------------
(* wordgraph_init, one loop iteration per step                             *)

InitIdle ==
  /\ filename = "" /\ g = EmptyGraph(0) /\ init_i = 0 /\ init_pc = "idle"

NoGraph == graph = ""

InitState == [pc |-> init_pc, g |-> g, i |-> init_i]

SetInitState(st) == init_pc' = st.pc /\ g' = st.g /\ init_i' = st.i

BuildInit ==
  /\ filename \in FileNames
  /\ g = EmptyGraph(0)
  /\ init_i = 0
  /\ init_pc = "open"

BuildOpen ==
  /\ init_pc = "open"
  /\ SetInitState(InitOpen(FileContents(filename)))
  /\ UNCHANGED filename

BuildWord ==
  /\ init_pc = "words"
  /\ init_i < g.n_words
  /\ \E h \in HeapBytes :
       SetInitState(InitWordIter(FileContents(filename), InitState, h))
  /\ UNCHANGED filename

BuildWordsDone ==
  /\ init_pc = "words"
  /\ init_i >= g.n_words
  /\ SetInitState(InitWordsDone(InitState))
  /\ UNCHANGED filename

BuildFollowers ==
  /\ init_pc = "followers"
  /\ SetInitState(InitFollowers(FileContents(filename), InitState))
  /\ UNCHANGED filename

----------------------------------------------------------------------------
(* edit_distance, one row per step                                         *)

EdIdle ==
  /\ ed_x = <<>> /\ ed_y = <<>> /\ ed_a = <<>> /\ ed_b = <<>>
  /\ ed_cost = EdInitCost(0) /\ ed_i = 0 /\ ed_pc = "idle"

\* The state at line 252.
EdInit ==
  /\ \E p \in StringPairs : ed_x = p[1] /\ ed_y = p[2]
  /\ ed_a = EdSwap(ed_x, ed_y).a
  /\ ed_b = EdSwap(ed_x, ed_y).b
  /\ ed_cost = EdInitCost(Len(ed_a))
  /\ ed_i = 1
  /\ ed_pc = "rows"

EdRowStep ==
  /\ ed_pc = "rows"
  /\ ed_i < Len(ed_b) + 1
  /\ ed_cost' = EdRow(ed_a, ed_b, ed_i, ed_cost)
  /\ ed_i' = ed_i + 1
  /\ UNCHANGED <<ed_x, ed_y, ed_a, ed_b, ed_pc>>

\* line 267: cost[n] is returned.
EdReturn ==
  /\ ed_pc = "rows"
  /\ ed_i >= Len(ed_b) + 1
  /\ ed_pc' = "done"
  /\ UNCHANGED <<ed_x, ed_y, ed_a, ed_b, ed_cost, ed_i>>

----------------------------------------------------------------------------
(* wordgraph_find_word, one dictionary word per step                       *)

FindIdle ==
  /\ word = <<>> /\ fw_i = 0 /\ best_word = 0 /\ best_dist = 0 /\ fw_pc = "idle"

FindInit ==
  /\ word \in Queries
  /\ fw_i = FindStart.i
  /\ best_word = FindStart.best_word
  /\ best_dist = FindStart.best_dist
  /\ fw_pc = "loop"

FindStep ==
  /\ fw_pc = "loop"
  /\ fw_i < LoadedGraph(graph).n_words
  /\ LET st == FindIter(LoadedGraph(graph), word,
                        [i |-> fw_i, best_word |-> best_word, best_dist |-> best_dist])
     IN fw_i' = st.i /\ best_word' = st.best_word /\ best_dist' = st.best_dist
  /\ UNCHANGED <<word, fw_pc>>

FindReturn ==
  /\ fw_pc = "loop"
  /\ fw_i >= LoadedGraph(graph).n_words
  /\ fw_pc' = "done"
  /\ UNCHANGED <<word, fw_i, best_word, best_dist>>

----------------------------------------------------------------------------
(* main: the generation loop, one loop iteration per step                  *)

NoOutput == [prefixes |-> <<>>, words |-> <<>>]

GenIdle ==
  /\ length = 0 /\ count = 0 /\ start_word = 0 /\ prefixes_chosen = <<>>
  /\ word_sets = <<>> /\ gen_i = 0 /\ next_words = -1 /\ mismatch = 0
  /\ last_word = 0 /\ drawn = <<>> /\ out = NoOutput /\ n_lines = 0
  /\ requested = 0 /\ gen_pc = "idle"

\* The state at line 340: length and count positive (lines 315-319),
\* start_word 0 or a word of the graph (lines 289, 312).
GenInit ==
  /\ length \in 1..MaxLength
  /\ count \in 1..MaxCount
  /\ requested = count
  /\ start_word \in Hooks
  /\ prefixes_chosen = <<>> /\ word_sets = <<>> /\ gen_i = 0 /\ next_words = -1
  /\ mismatch = 0 /\ last_word = 0 /\ drawn = <<>> /\ out = NoOutput
  /\ n_lines = 0
  /\ gen_pc = "loop"

\* lines 340-361: the loop test, the read, the candidate sets.
GenRound ==
  /\ gen_pc = "loop"
  /\ count # 0
  /\ count' = count - 1
  /\ \E buf \in [0..(length - 1) -> Draws] :
       /\ drawn' = buf
       /\ prefixes_chosen' = [k \in 0..(length - 1) |-> MaskPrefix(buf[k])]
  /\ word_sets' = CandidateSets(LoadedGraph(graph), prefixes_chosen')
  /\ out' = [prefixes |-> [k \in 1..length |->
                             LoadedGraph(graph).prefixes[prefixes_chosen'[k - 1] + 1].prefix],
              words |-> <<>>]
  /\ mismatch' = 0
  /\ next_words' = -1
  /\ gen_i' = length - 1
  /\ gen_pc' = "backward"
  /\ UNCHANGED <<length, start_word, last_word, n_lines, requested>>

\* lines 343-345: the random source supplies fewer bytes than asked.
GenReadFails ==
  /\ gen_pc = "loop"
  /\ count # 0
  /\ count' = count - 1
  /\ gen_pc' = "exit6"
  /\ UNCHANGED <<length, start_word, prefixes_chosen, word_sets, gen_i, next_words,
                 mismatch, last_word, drawn, out, n_lines, requested>>

\* line 340 with count == 0, lines 411-413.
GenExit ==
  /\ gen_pc = "loop"
  /\ count = 0
  /\ count' = count - 1
  /\ gen_pc' = "done"
  /\ UNCHANGED <<length, start_word, prefixes_chosen, word_sets, gen_i, next_words,
                 mismatch, last_word, drawn, out, n_lines, requested>>

GenBackward ==
  /\ gen_pc = "backward"
  /\ gen_i >= 0
  /\ LET st == BackwardIter(LoadedGraph(graph), [pc |-> gen_pc, word_sets |-> word_sets, i |-> gen_i,
                                 next_words |-> next_words, mismatch |-> mismatch])
     IN /\ gen_pc' = st.pc
        /\ word_sets' = st.word_sets
        /\ gen_i' = st.i
        /\ next_words' = st.next_words
        /\ mismatch' = st.mismatch
  /\ UNCHANGED <<length, count, start_word, prefixes_chosen, last_word, drawn, out,
                 n_lines, requested>>

\* line 362 with i < 0, lines 388-391.
GenStartForward ==
  /\ gen_pc = "backward"
  /\ gen_i < 0
  /\ last_word' = start_word
  /\ gen_i' = 0
  /\ gen_pc' = "forward"
  /\ UNCHANGED <<length, count, start_word, prefixes_chosen, word_sets, next_words,
                 mismatch, drawn, out, n_lines, requested>>

GenForward ==
  /\ gen_pc = "forward"
  /\ gen_i < length
  /\ LET st == ForwardIter(LoadedGraph(graph), word_sets,
                           [pc |-> gen_pc, i |-> gen_i, last_word |-> last_word])
     IN /\ gen_pc' = st.pc
        /\ gen_i' = st.i
        /\ last_word' = st.last_word
        /\ out' = IF st.pc = "exit10" THEN out
                   ELSE [out EXCEPT !.words = Append(@, st.last_word)]
  /\ UNCHANGED <<length, count, start_word, prefixes_chosen, word_sets, next_words,
                 mismatch, drawn, n_lines, requested>>

\* line 391 with i == length, lines 404-408: the sets are freed and the
\* line ended.
GenEndRound ==
  /\ gen_pc = "forward"
  /\ gen_i >= length
  /\ n_lines' = n_lines + 1
  /\ gen_pc' = "loop"
  /\ UNCHANGED <<length, count, start_word, prefixes_chosen, word_sets, gen_i,
                 next_words, mismatch, last_word, drawn, out, requested>>

----------------------------------------------------------------------------
(* Specifications                                                          *)

SpecDecodeInit == DecodeInit /\ IntIdle /\ InitIdle /\ EdIdle /\ FindIdle /\ GenIdle /\ NoGraph
SpecDecodeNext ==
  \/ DecodeStep /\ UNCHANGED <<intVars, initVars, edVars, fwVars, genVars, graph>>
  \/ DecodeReturn /\ UNCHANGED <<intVars, initVars, edVars, fwVars, genVars, graph>>
SpecDecode == SpecDecodeInit /\ [][SpecDecodeNext]_vars

SpecIntersectInit == IntersectInit /\ DecIdle /\ InitIdle /\ EdIdle /\ FindIdle /\ GenIdle /\ NoGraph
SpecIntersectNext ==
  \/ IntersectStep /\ UNCHANGED <<decVars, initVars, edVars, fwVars, genVars, graph>>
  \/ IntersectReturn /\ UNCHANGED <<decVars, initVars, edVars, fwVars, genVars, graph>>
SpecIntersect == SpecIntersectInit /\ [][SpecIntersectNext]_vars

SpecBuildInit == BuildInit /\ DecIdle /\ IntIdle /\ EdIdle /\ FindIdle /\ GenIdle /\ NoGraph
SpecBuildNext ==
  \/ BuildOpen /\ UNCHANGED <<decVars, intVars, edVars, fwVars, genVars, graph>>
  \/ BuildWord /\ UNCHANGED <<decVars, intVars, edVars, fwVars, genVars, graph>>
  \/ BuildWordsDone /\ UNCHANGED <<decVars, intVars, edVars, fwVars, genVars, graph>>
  \/ BuildFollowers /\ UNCHANGED <<decVars, intVars, edVars, fwVars, genVars, graph>>
SpecBuild == SpecBuildInit /\ [][SpecBuildNext]_vars

\* Either a call of edit_distance on a pair of strings, or a call of
\* wordgraph_find_word on the loaded graph.
SpecMatchInit ==
  /\ DecIdle /\ IntIdle /\ GenIdle /\ InitIdle
  /\ \/ EdInit /\ FindIdle /\ NoGraph
     \/ FindInit /\ EdIdle /\ graph = "good"
SpecMatchNext ==
  \/ EdRowStep /\ UNCHANGED <<decVars, intVars, initVars, fwVars, genVars, graph>>
  \/ EdReturn /\ UNCHANGED <<decVars, intVars, initVars, fwVars, genVars, graph>>
  \/ FindStep /\ UNCHANGED <<decVars, intVars, initVars, edVars, genVars, graph>>
  \/ FindReturn /\ UNCHANGED <<decVars, intVars, initVars, edVars, genVars, graph>>
SpecMatch == SpecMatchInit /\ [][SpecMatchNext]_vars

\* The generation loop of main on a loaded graph.
SpecGenInit ==
  /\ DecIdle /\ IntIdle /\ EdIdle /\ FindIdle /\ InitIdle
  /\ graph \in GraphNames
  /\ GenInit
SpecGenNext ==
  \/ GenRound /\ UNCHANGED <<decVars, intVars, initVars, edVars, fwVars, graph>>
  \/ GenReadFails /\ UNCHANGED <<decVars, intVars, initVars, edVars, fwVars, graph>>
  \/ GenExit /\ UNCHANGED <<decVars, intVars, initVars, edVars, fwVars, graph>>
  \/ GenBackward /\ UNCHANGED <<decVars, intVars, initVars, edVars, fwVars, graph>>
  \/ GenStartForward /\ UNCHANGED <<decVars, intVars, initVars, edVars, fwVars, graph>>
  \/ GenForward /\ UNCHANGED <<decVars, intVars, initVars, edVars, fwVars, graph>>
  \/ GenEndRound /\ UNCHANGED <<decVars, intVars, initVars, edVars, fwVars, graph>>
SpecGen == SpecGenInit /\ [][SpecGenNext]_vars

----------------------------------------------------------------------------
(* Claims                                                                  *)

\* C1: decoding the encoding of a strictly ascending sequence of positive
\* integers returns that sequence.
C1_RoundTrip ==
  dec_pc = "done" =>
    \A s \in AscInputs : Body(enc) = Encode(s) => dec = s

\* The encoding of 100..131 is the varint for 99 and one run-length byte, and
\* it has been decoded to those 32 values.
C1_Witness ==
  /\ dec_pc = "done"
  /\ Body(enc) = Varint(99) \o <<96 + 30>>
  /\ Body(enc) = Encode(Range(100, 131))
  /\ dec = Range(100, 131)

\* C5: decode never reads a byte at an index greater than the index of the
\* terminator of its argument.
C5_NoReadPastTerminator == dec_hi <= TermIdx(enc)

\* C7: the intersection of two strictly ascending sequences is strictly
\* ascending, holds exactly the common values, is the same in either argument
\* order, and the arguments are left as they were.
C7_Intersect ==
  /\ [](int_pc = "done" =>
          /\ IsAscending(ret)
          /\ SeqSet(ret) = SeqSet(a) \cap SeqSet(b)
          /\ ret = intvec_intersect(b, a))
  /\ [][a' = a /\ b' = b]_vars

C7_Witness ==
  /\ int_pc = "done"
  /\ Len(ret) = 2
  /\ Len(a) = 3
  /\ SeqSet(b) \ SeqSet(a) # {}

\* The lowercased 3-character prefix of a word line of at least 3 characters.
LowerCase(c) == IF c \in 65..90 THEN c + 32 ELSE c
LowerPrefix(line) == <<LowerCase(line[1]), LowerCase(line[2]), LowerCase(line[3])>>

\* The number of distinct lowercased prefixes among the words 1..i.
NDistinct(file, i) == Cardinality({LowerPrefix(file.lines[k]) : k \in 1..i})

\* A file with a header, its n_words - 1 word lines of at least 3 characters
\* and its n_words follower lines.
WellFormed(file) ==
  /\ file.exists
  /\ file.header # <<>>
  /\ file.header[1] >= 1
  /\ Len(file.lines) >= 2 * file.header[1] - 1
  /\ \A k \in 1..(file.header[1] - 1) : Len(file.lines[k]) >= 3

BucketsOf(gr, id) == {j \in 1..Len(gr.prefixes) : id \in SeqSet(gr.prefixes[j].words)}

\* C3: on a well-formed corpus the build succeeds exactly when the words
\* have 1024 distinct lowercased prefixes: it exits with "not enough
\* prefixes" after the word pass when they have fewer, with "too many
\* prefixes" at the word that brings the 1025th, and on success every word is
\* in exactly one bucket, that of its prefix, and every bucket is non-empty
\* and strictly ascending.
C3_BuildIffExactly1024 ==
  LET file == FileContents(filename)
      n == g.n_words
  IN (init_pc \in {"followers", "done", "exit1", "exit2", "exit3"} /\ WellFormed(file)) =>
       /\ init_pc # "exit1"
       /\ init_pc = "exit3" => NDistinct(file, n - 1) < 1024 /\ init_i = n
       /\ init_pc = "exit2" =>
            NDistinct(file, init_i) = 1025 /\ NDistinct(file, init_i - 1) = 1024
       /\ init_pc \in {"followers", "done"} =>
            /\ NDistinct(file, n - 1) = 1024
            /\ g.n_prefixes = 1024
            /\ Len(g.prefixes) = 1024
            /\ \A id \in 1..(n - 1) :
                 /\ Cardinality(BucketsOf(g, id)) = 1
                 /\ \A j \in BucketsOf(g, id) :
                      g.prefixes[j].prefix = LowerPrefix(file.lines[id])
            /\ \A j \in 1..1024 :
                 /\ g.prefixes[j].words # <<>>
                 /\ IsAscending(g.prefixes[j].words)
                 /\ SeqSet(g.prefixes[j].words) \subseteq 1..(n - 1)

\* The good corpus is loaded: the bucket of "aaa" holds three words, one of
\* them spelled with an upper-case letter.
C3_Witness ==
  /\ init_pc = "done"
  /\ filename = "good"
  /\ g.prefixes[1].words = <<1, 1025, 1027>>
  /\ g.prefixes[2].words = <<2, 1026>>

\* C6: a corpus with a word line shorter than 3 characters is rejected: no
\* graph is returned and no bucket is populated from such a word.
C6_ShortWordRejected ==
  LET file == FileContents(filename)
  IN /\ init_pc = "done" =>
          \A k \in 1..(g.n_words - 1) : Len(file.lines[k]) >= 3
     /\ init_pc = "words" =>
          \A j \in 1..Len(g.prefixes) :
             \A id \in SeqSet(g.prefixes[j].words) : Len(file.lines[id]) >= 3

\* The Levenshtein distance by its two-dimensional recurrence.
Lev(x, y) ==
  LET D[i \in 0..Len(x), j \in 0..Len(y)] ==
        IF i = 0 THEN j
        ELSE IF j = 0 THEN i
        ELSE LET del == D[i - 1, j] + 1
                 ins == D[i, j - 1] + 1
                 sub == D[i - 1, j - 1] + (IF x[i] = y[j] THEN 0 ELSE 1)
             IN IF del <= ins /\ del <= sub THEN del
                ELSE IF ins <= sub THEN ins ELSE sub
  IN D[Len(x), Len(y)]

Fol(w) == SeqSet(decode(LoadedGraph(graph).followers_compressed[w]))

\* The words of the bucket sampled for position i.
Sampled(i) == SeqSet(BucketWords(LoadedGraph(graph), prefixes_chosen[i]))

\* Some candidate of position i has a follower among the final candidates
\* of position i + 1: the narrowing of position i is not abandoned.
Narrowable(i) == \E w \in Sampled(i) : Fol(w) \cap SeqSet(word_sets[i + 1]) # {}

Lowest(S) == CHOOSE x \in S : \A y \in S : x <= y

\* The steps the loop has yet to take: 2 * length + 3 for each round (the
\* draw, length backward and length forward iterations, the turn between
\* them, the end of the line), and the last test of count.
RoundSteps == 2 * length + 3

StepsLeft ==
  CASE gen_pc = "loop" -> count * RoundSteps + 1
    [] gen_pc = "backward" -> count * RoundSteps + 1 + (gen_i + 1) + length + 2
    [] gen_pc = "forward" -> count * RoundSteps + 1 + (length - gen_i) + 1
    [] OTHER -> 0

\* C2: the loop terminates (every step lowers StepsLeft, a natural number,
\* so the loop takes no more than StepsLeft steps), with one line printed
\* per requested passphrase when it ends normally; every line has L prefixes
\* and L words, the word of each position taken from the bucket whose index
\* is the position's draw reduced to [0, 1024); no vector index is ever out
\* of range.
C2_Generation ==
  /\ [](StepsLeft \in Nat)
  /\ [][StepsLeft' < StepsLeft]_vars
  /\ [](gen_pc # "exit10")
  /\ [](gen_pc = "done" => n_lines = requested)
  /\ []((gen_pc = "loop" /\ n_lines > 0) =>
          /\ Len(out.prefixes) = length
          /\ Len(out.words) = length
          /\ \A k \in 0..(length - 1) :
               /\ prefixes_chosen[k] \in 0..1023
               /\ prefixes_chosen[k] = drawn[k] % 1024
               /\ out.words[k + 1] \in Sampled(k)
               /\ out.prefixes[k + 1] = LowerPrefix(Str(LoadedGraph(graph).words[out.words[k + 1]])))

\* Two passphrases of three positions were asked for and printed, the last
\* from draws of which one is negative.
C2_Witness ==
  /\ gen_pc = "done"
  /\ requested = 2 /\ n_lines = 2 /\ length = 3
  /\ \E k \in 0..2 : drawn[k] < 0
  /\ \E k \in 0..2 : drawn[k] > 1023

\* C4: at the end of backward propagation the mismatch count is the number
\* of non-last positions whose narrowing was abandoned.
C4_MismatchCount ==
  gen_pc = "forward" =>
    mismatch = Cardinality({i \in 0..(length - 2) : ~Narrowable(i)})

\* C9: the word chosen at each position is the lowest id among the
\* candidates of the position that follow the previous word (the hook or the
\* sentinel at the first position), or the lowest candidate when none does.
C9_ForwardSelection ==
  gen_pc = "forward" =>
    /\ Len(out.words) = gen_i
    /\ \A k \in 1..Len(out.words) :
         LET prev == IF k = 1 THEN start_word ELSE out.words[k - 1]
             cands == SeqSet(word_sets[k - 1])
         IN out.words[k] =
              IF Fol(prev) \cap cands # {} THEN Lowest(Fol(prev) \cap cands)
              ELSE Lowest(cands)

\* A hooked chain is complete: its first word follows the hook and is not
\* the lowest candidate of its position, and a later word follows nothing.
C9_Witness ==
  /\ gen_pc = "forward" /\ gen_i = length /\ length = 3
  /\ start_word # 0
  /\ out.words[1] \in Fol(start_word)
  /\ out.words[1] # Lowest(SeqSet(word_sets[0]))
  /\ out.words[3] \notin Fol(out.words[2])
  /\ out.words[3] = Lowest(SeqSet(word_sets[2]))

\* C10: where the narrowing of a non-last position was not abandoned, the
\* word chosen at the next position follows the word chosen at it.
C10_LinkedWhereNarrowed ==
  gen_pc = "forward" =>
    \A i \in 0..(length - 2) :
       (i + 2 <= Len(out.words) /\ Narrowable(i)) =>
          out.words[i + 2] \in Fol(out.words[i + 1])

\* A chain of three whose narrowings both succeeded and removed candidates,
\* the first position reached by a broken link from the hook.
C10_Witness ==
  /\ gen_pc = "forward" /\ gen_i = length /\ length = 3
  /\ Narrowable(0) /\ Narrowable(1)
  /\ SeqSet(word_sets[0]) # Sampled(0)
  /\ SeqSet(word_sets[1]) # Sampled(1)
  /\ out.words[1] \notin Fol(start_word)
  /\ out.words[2] \in Fol(out.words[1])
  /\ out.words[3] \in Fol(out.words[2])

====
